---- MODULE Spec2Model ----
(***************************************************************************)
(* State-machine model of SpectrometerGui (src/src/gui.rs): the averaging  *)
(* buffer, the spectrum builder (update_spectrum), the operator actions of *)
(* the calibration, post-processing, camera-control and import windows,    *)
(* the connection panel, and the peak/dip detector                         *)
(* (spectrum_to_peaks_and_dips).                                           *)
(*                                                                         *)
(* Numbers.  An f32 is modelled as an extended rational <<n, d>> in lowest *)
(* terms with d >= 0; d = 0 encodes the IEEE specials: <<1,0>> = +inf,     *)
(* <<-1,0>> = -inf, <<0,0>> = NaN.  Arithmetic is exact (no rounding, no   *)
(* signed zero); the sample values the model draws are small integers, on  *)
(* which f32 addition is exact as well.                                    *)
(*                                                                         *)
(* Options.  Option<T> is the sequence <<>> (None) or <<x>> (Some(x)).     *)
(***************************************************************************)
EXTENDS Integers, Sequences, FiniteSets, TLC

(***************************************************************************)
(* Bounds of the model.                                                    *)
(***************************************************************************)
\* largest value of the "Averaging Buffer Size" slider explored (code: 100)
MaxBufferSize == 3
\* number of frames the acquisition thread sends in one run
MaxFrames == 3
\* frames in flight in the spectrum channel
MaxQueue == 1
\* number of camera controls of the device
NumControls == 1

(***************************************************************************)
(* f32 arithmetic on extended rationals.                                   *)
(***************************************************************************)
Abs(x) == IF x < 0 THEN -x ELSE x

Sign(x) == IF x > 0 THEN 1 ELSE IF x < 0 THEN -1 ELSE 0

RECURSIVE Gcd(_, _)
Gcd(a, b) == IF b = 0 THEN a ELSE Gcd(b, a % b)

F32(n, d) ==
    IF d = 0 THEN <<Sign(n), 0>>
    ELSE LET g == Gcd(Abs(n), Abs(d))
             s == Sign(d)
         IN  <<(s * n) \div g, (s * d) \div g>>

Num(n) == <<n, 1>>

NaN == <<0, 0>>

F32Add(a, b) ==
    IF a[2] = 0 /\ b[2] = 0 THEN (IF a[1] = b[1] THEN a ELSE NaN)
    ELSE IF a[2] = 0 THEN a
    ELSE IF b[2] = 0 THEN b
    ELSE F32(a[1] * b[2] + b[1] * a[2], a[2] * b[2])

F32Neg(a) == <<-a[1], a[2]>>

F32Sub(a, b) == F32Add(a, F32Neg(b))

F32Mul(a, b) == F32(a[1] * b[1], a[2] * b[2])

\* 1/b: 1/0 = +inf, 1/inf = 0, 1/NaN = NaN
F32Recip(b) ==
    IF b[1] > 0 THEN <<b[2], b[1]>>
    ELSE IF b[1] < 0 THEN <<-b[2], -b[1]>>
    ELSE IF b[2] = 0 THEN NaN
    ELSE <<1, 0>>

F32Div(a, b) == F32Mul(a, F32Recip(b))

\* a < b; false as soon as one side is NaN
F32Lt(a, b) ==
    IF a = NaN \/ b = NaN THEN FALSE
    ELSE IF a[2] = 0 /\ b[2] = 0 THEN a[1] < b[1]
    ELSE IF a[2] = 0 THEN a[1] < 0
    ELSE IF b[2] = 0 THEN b[1] > 0
    ELSE a[1] * b[2] < b[1] * a[2]

F32Gt(a, b) == F32Lt(b, a)

\* a <= b; false as soon as one side is NaN
F32Le(a, b) == a # NaN /\ b # NaN /\ (a = b \/ F32Lt(a, b))

\* f32::max / f32::min: the other operand when one is NaN
F32Max(a, b) == IF a = NaN THEN b ELSE IF b = NaN THEN a ELSE IF F32Lt(a, b) THEN b ELSE a

F32Min(a, b) == IF a = NaN THEN b ELSE IF b = NaN THEN a ELSE IF F32Lt(b, a) THEN b ELSE a

(***************************************************************************)
(* Matrices.  A SpectrumRgb is <<r, g, b>> and a Spectrum <<r, g, b, sum>>,*)
(* each row a sequence of ncols f32 values.                                *)
(***************************************************************************)
None == <<>>

Some(x) == <<x>>

ncols(m) == Len(m[1])

\* SpectrumRgb::from_element(ncols, 0.)
from_element(nrows, n, v) == [k \in 1..nrows |-> [i \in 1..n |-> v]]

\* a + b, elementwise
MatAdd(a, b) == [k \in 1..Len(a) |-> [i \in 1..Len(a[k]) |-> F32Add(a[k][i], b[k][i])]]

\* a - b, elementwise
MatSub(a, b) == [k \in 1..Len(a) |-> [i \in 1..Len(a[k]) |-> F32Sub(a[k][i], b[k][i])]]

\* m / x
MatDiv(m, x) == [k \in 1..Len(m) |-> [i \in 1..Len(m[k]) |-> F32Div(m[k][i], x)]]

\* combined_buffer.row(k) * gain
RowScale(row, g) == [i \in 1..Len(row) |-> F32Mul(row[i], g)]

\* a sum that leaves out the blue row
red_green_sum(m) == [i \in 1..ncols(m) |-> F32Add(m[1][i], m[2][i])]

\* combined_buffer.row_sum(): the sum of the rows, per column
row_sum(m) == [i \in 1..ncols(m) |-> F32Add(F32Add(m[1][i], m[2][i]), m[3][i])]

\* a frame whose samples are the given integers
Frame(r, g, b) == <<[i \in 1..Len(r) |-> Num(r[i])],
                    [i \in 1..Len(g) |-> Num(g[i])],
                    [i \in 1..Len(b) |-> Num(b[i])]>>

\* the frame of one bin with the sample v in all channels
Flat(v) == Frame(<<v>>, <<v>>, <<v>>)

\* the frames the acquisition thread may deliver: three of one bin, one of two
FrameSet == { Frame(<<1>>, <<1>>, <<1>>), Frame(<<2>>, <<2>>, <<2>>),
              Frame(<<3>>, <<3>>, <<3>>),
              Frame(<<1, 3>>, <<2, 1>>, <<0, 2>>) }

(***************************************************************************)
(* Configuration values (config.rs is not part of the sources: the little  *)
(* of it the GUI calls is modelled from the specification).                *)
(***************************************************************************)
\* enum Linearize; Rec601 and Rec709 go through the same code as SRgb and
\* are represented by it
Linearizes == {"Off", "SRgb"}

\* Linearize::linearize(v): Off is the identity; the three inverse gamma
\* curves are monotone maps of the sample, represented by the square (a
\* gamma of 2), which is monotone on the non-negative samples and not the
\* identity.
linearize(mode, v) == IF mode = "Off" THEN v ELSE F32Mul(v, v)

\* SpectrumCalibration::get_wavelength_from_index(i), i counted from 0:
\* low.wavelength + (i - low.index) * (high.wavelength - low.wavelength)
\*                                  / (high.index - low.index)
get_wavelength_from_index(cal, i) ==
    F32Add(Num(cal.low.wavelength),
           F32Div(F32Mul(Num(i - cal.low.index),
                         Num(cal.high.wavelength - cal.low.wavelength)),
                  Num(cal.high.index - cal.low.index)))

\* SpectrumCalibration::get_scaling_factor_from_index(i), i counted from 0:
\* the entry of the scaling vector at i if present, else 1.0
get_scaling_factor_from_index(scaling, i) ==
    IF scaling # None /\ i + 1 \in DOMAIN scaling[1] THEN scaling[1][i + 1] ELSE Num(1)

\* ReferenceConfig::get_value_at_wavelength(w): the reference curve, linearly
\* interpolated between its samples; None without a curve or outside of it
get_value_at_wavelength(reference, w) ==
    IF reference = None THEN None
    ELSE LET curve == reference[1]
             segs == { k \in 1..(Len(curve) - 1) :
                         /\ F32Le(Num(curve[k].wavelength), w)
                         /\ F32Le(w, Num(curve[k + 1].wavelength)) }
         IN  IF segs = {} THEN None
             ELSE LET k  == CHOOSE x \in segs : \A y \in segs : x <= y
                      w0 == Num(curve[k].wavelength)
                      w1 == Num(curve[k + 1].wavelength)
                      v0 == Num(curve[k].value)
                      v1 == Num(curve[k + 1].value)
                  IN  Some(F32Add(v0, F32Div(F32Mul(F32Sub(w, w0), F32Sub(v1, v0)),
                                             F32Sub(w1, w0))))

\* reference curves an import can load: one covering 400..500 nm, one 450..600 nm
ReferenceSet == { <<[wavelength |-> 400, value |-> 2], [wavelength |-> 500, value |-> 4]>>,
                  <<[wavelength |-> 450, value |-> 1], [wavelength |-> 600, value |-> 4]>> }

\* the values a camera control takes; DefaultControl is Description::default
ControlValues == {0, 1}

DefaultControl == 0

ControlIds == 1..NumControls

\* the formats the cameras offer (CameraInfo::formats)
Formats == { [width |-> 4, height |-> 2] }

\* what the acquisition thread reports: ThreadResult { id, result }
ThreadResults == [id : {"Camera"}, result : {"Ok", "Err"}]

\* the results of the camera thread and of the GUI thread (ThreadId::Main)
AllThreadResults == [id : {"Camera", "Main"}, result : {"Ok", "Err"}]

\* its failures
ThreadFailures == { res \in ThreadResults : res.result = "Err" }

(***************************************************************************)
(* State.                                                                  *)
(***************************************************************************)
VARIABLES
    config,             \* self.config: SpectrometerConfig (the fields used)
    running,            \* self.running
    camera_controls,    \* self.camera_controls: id -> value
    spectrum,           \* self.spectrum: the published Spectrum
    spectrum_buffer,    \* self.spectrum_buffer: VecDeque<SpectrumRgb>, newest first
    zero_reference,     \* self.zero_reference: Option<Spectrum>
    last_error,         \* self.last_error: Option<ThreadResult>
    spectrum_rx,        \* frames in flight from the acquisition thread
    camera_config_tx,   \* the CameraEvents the last sending handler sent
    panicked,           \* "no", or the unwrap / matrix operation the GUI thread panicked in
    feature_points,     \* what spectrum_to_peaks_and_dips last computed, as an Option
    history,            \* ghost: frames pushed since the buffer was last cleared
    cam_started,        \* ghost: a StartStream event has been sent
    dimension_changed,  \* ghost: the last update_spectrum found another bin count (201)
    nsent,              \* ghost: frames sent by the acquisition thread
    stale               \* ghost: per frame in flight and per buffered frame, whether
                        \* it was in flight when a control change or a stream start
                        \* last cleared the buffer

vars == <<config, running, camera_controls, spectrum, spectrum_buffer, zero_reference,
          last_error, spectrum_rx, camera_config_tx, panicked, feature_points,
          history, cam_started, dimension_changed, nsent, stale>>

\* Spectrum::zeros(0)
zeros(n) == from_element(4, n, Num(0))

\* the configuration the program starts from (confy::load)
InitConfig ==
    [ camera_format          |-> None,
      linearize              |-> "Off",
      gain_r                 |-> Num(1),
      gain_g                 |-> Num(1),
      gain_b                 |-> Num(1),
      scaling                |-> None,
      low                    |-> [index |-> 0, wavelength |-> 400],
      high                   |-> [index |-> 2, wavelength |-> 600],
      spectrum_buffer_size   |-> MaxBufferSize,
      spectrum_filter_active |-> FALSE,
      reference              |-> None,
      window                 |-> [offset_x |-> 1, size_x |-> 2],
      peaks_dips_find_window   |-> 1,
      peaks_dips_unique_window |-> Num(1) ]

\* SpectrometerGui::new
Init ==
    /\ config = InitConfig
    /\ running = FALSE
    /\ camera_controls = <<>>
    /\ spectrum = zeros(0)
    /\ spectrum_buffer = <<>>
    /\ zero_reference = None
    /\ last_error = None
    /\ spectrum_rx = <<>>
    /\ camera_config_tx = <<>>
    /\ panicked = "no"
    /\ feature_points = None
    /\ history = <<>>
    /\ cam_started = FALSE
    /\ dimension_changed = FALSE
    /\ nsent = 0
    /\ stale = [rx |-> <<>>, buffer |-> <<>>]

(***************************************************************************)
(* update_spectrum (gui.rs 198-285), step by step.                         *)
(***************************************************************************)
\* a dimension check that never finds a change
DimensionNeverChanged(buffer, n) == FALSE

\* 201-207: the buffer's front frame has another bin count than the new frame
DimensionChanged(buffer, n) == buffer # <<>> /\ ncols(buffer[1]) # n

\* 203: spectrum_buffer.clear() when the dimension changed
BufferAfterCheck(changed, buffer) == IF changed THEN <<>> ELSE buffer

\* a dimension change that leaves the zero reference in place
ZeroKept(changed, zero) == zero

\* 204: zero_reference = None when the dimension changed
ZeroAfterCheck(changed, zero) == IF changed THEN None ELSE zero

\* 209-213: every sample of the frame linearized, unless the mode is Off
LinearizeFrame(mode, f) ==
    IF mode # "Off"
    THEN [k \in 1..Len(f) |-> [i \in 1..Len(f[k]) |-> linearize(mode, f[k][i])]]
    ELSE f

\* VecDeque::push_front
push_front(buffer, f) == <<f>> \o buffer

\* a truncate that drops nothing
truncate_nothing(buffer, len) == buffer

\* VecDeque::truncate(len): keeps the first len elements
truncate(buffer, len) == IF Len(buffer) > len THEN SubSeq(buffer, 1, len) ELSE buffer

\* 219-223: par_iter().cloned().reduce(|| from_element(ncols, 0.), |a, b| a + b)
RECURSIVE ReduceSum(_, _)
ReduceSum(buffer, n) ==
    IF buffer = <<>> THEN from_element(3, n, Num(0))
    ELSE MatAdd(Head(buffer), ReduceSum(Tail(buffer), n))

\* 219-223: a + b of the reduction panics (nalgebra asserts equal shapes)
\* when two frames of the buffer differ in their bin count
SumPanics(buffer) ==
    \E j, k \in 1..Len(buffer) : ncols(buffer[j]) # ncols(buffer[k])

\* a mean that divides by the configured buffer size
MeanByBufferSize(buffer, n, size) == MatDiv(ReduceSum(buffer, n), Num(size))

\* 219-224: the reduced sum divided by spectrum_buffer.len() as f32
MeanOfBuffer(buffer, n, size) == MatDiv(ReduceSum(buffer, n), Num(Len(buffer)))

\* every channel row multiplied by the red gain
ApplyRedGain(m, cfg) ==
    <<RowScale(m[1], cfg.gain_r), RowScale(m[2], cfg.gain_r), RowScale(m[3], cfg.gain_r)>>

\* 226-237: each channel row multiplied by its gain
ApplyGains(m, cfg) ==
    <<RowScale(m[1], cfg.gain_r), RowScale(m[2], cfg.gain_g), RowScale(m[3], cfg.gain_b)>>

\* 243-254: the sum row, each bin multiplied by its scaling factor when a
\* scaling vector is set
SumRow(m, cfg) ==
    IF cfg.scaling # None
    THEN [i \in 1..ncols(m) |->
            F32Mul(row_sum(m)[i], get_scaling_factor_from_index(cfg.scaling, i - 1))]
    ELSE row_sum(m)

\* 239-255: Spectrum::from_rows of the three channel rows and the sum row
AssembleSpectrum(m, cfg) == <<m[1], m[2], m[3], SumRow(m, cfg)>>

\* Coefficients::from_params(LowPass, fs = 2, f0 = cutoff, Q_BUTTERWORTH):
\* normalized <<b0, b1, b2, a1, a2>> with unit gain at DC; the coefficients of
\* the cutoff 0.5 (0.2929, 0.5858, 0.2929, 0, 0.1716) rounded to quarters
Coefficients == <<F32(1, 4), F32(1, 2), F32(1, 4), Num(0), Num(0)>>

\* DirectForm2Transposed::run: <<output, s1, s2>> for input x in state <<s1, s2>>
BiquadRun(c, s, x) ==
    LET y == F32Add(s[1], F32Mul(c[1], x))
    IN  <<y,
          F32Sub(F32Add(s[2], F32Mul(c[2], x)), F32Mul(c[4], y)),
          F32Sub(F32Mul(c[3], x), F32Mul(c[5], y))>>

\* 270-272 and 274-276: the samples at the indices of order, one after the
\* other, each replaced by the filter's output; <<row, s1, s2>>
RECURSIVE RunOver(_, _, _, _)
RunOver(c, row, s, order) ==
    IF order = <<>> THEN <<row, s[1], s[2]>>
    ELSE LET i == Head(order)
             r == BiquadRun(c, s, row[i])
         IN  RunOver(c, [row EXCEPT ![i] = r[1]], <<r[2], r[3]>>, Tail(order))

\* 268-277: one biquad per row, run forward and then, as it is, in reverse
FilterRow(c, row) ==
    LET n   == Len(row)
        fwd == RunOver(c, row, <<Num(0), Num(0)>>, [i \in 1..n |-> i])
        rev == RunOver(c, fwd[1], <<fwd[2], fwd[3]>>, [i \in 1..n |-> n + 1 - i])
    IN  rev[1]

\* 257-278
FilterSpectrum(m, cfg) ==
    IF cfg.spectrum_filter_active
    THEN [k \in 1..Len(m) |-> FilterRow(Coefficients, m[k])]
    ELSE m

\* 280-282: current_spectrum -= zero_reference panics (nalgebra asserts equal
\* shapes) when the bin counts differ
SubtractionPanics(zero, n) == zero # None /\ ncols(zero[1]) # n

\* a subtraction that leaves the sum row as it is
SubtractZeroFromChannels(m, zero) ==
    IF zero # None
    THEN LET d == MatSub(m, zero[1]) IN <<d[1], d[2], d[3], m[4]>>
    ELSE m

SubtractZero(m, zero) == IF zero # None THEN MatSub(m, zero[1]) ELSE m

\* 198-285: what update_spectrum(frame) leaves behind: the buffer, the zero
\* reference and the spectrum, and the matrix operation it panicked in, if any
Processed(frame) ==
    LET n       == ncols(frame)
        changed == DimensionChanged(spectrum_buffer, n)
        buffer0 == BufferAfterCheck(changed, spectrum_buffer)
        zero    == ZeroAfterCheck(changed, zero_reference)
        lin     == LinearizeFrame(config.linearize, frame)
        buffer1 == truncate(push_front(buffer0, lin), config.spectrum_buffer_size)
        mean    == MeanOfBuffer(buffer1, n, config.spectrum_buffer_size)
        current == FilterSpectrum(AssembleSpectrum(ApplyGains(mean, config), config),
                                  config)
        h       == <<lin>> \o (IF changed THEN <<>> ELSE history)
        failure == IF SumPanics(buffer1) THEN "buffer_sum"
                   ELSE IF SubtractionPanics(zero, n) THEN "zero_reference"
                   ELSE "no"
    IN  [ spectrum_buffer   |-> buffer1,
          zero_reference    |-> zero,
          dimension_changed |-> changed,
          stale_buffer      |-> truncate(push_front(IF changed THEN <<>> ELSE stale.buffer,
                                                    Head(stale.rx)),
                                         config.spectrum_buffer_size),
          history           |-> SubSeq(h, 1, IF Len(h) > MaxBufferSize THEN MaxBufferSize
                                                                       ELSE Len(h)),
          panicked          |-> failure,
          spectrum          |-> IF failure = "no" THEN SubtractZero(current, zero)
                                ELSE spectrum ]

\* update(), 1110-1112, with update_spectrum, 198-285: the frame at the head
\* of the channel is consumed and the spectrum rebuilt
update_spectrum ==
    /\ panicked = "no"
    /\ spectrum_rx # <<>>
    /\ \E done \in {Processed(Head(spectrum_rx))} :
           /\ spectrum_rx' = Tail(spectrum_rx)
           /\ spectrum_buffer' = done.spectrum_buffer
           /\ zero_reference' = done.zero_reference
           /\ dimension_changed' = done.dimension_changed
           /\ history' = done.history
           /\ panicked' = done.panicked
           /\ spectrum' = done.spectrum
           /\ stale' = [rx |-> Tail(stale.rx), buffer |-> done.stale_buffer]
    /\ UNCHANGED <<config, running, camera_controls, last_error, camera_config_tx,
                   feature_points, cam_started, nsent>>

\* the acquisition thread, once a stream was started, sends one of the given
\* frames, up to max frames in all and queue frames in flight
CameraSends(frames, max, queue) ==
    /\ panicked = "no"
    /\ cam_started
    /\ nsent < max
    /\ Len(spectrum_rx) < queue
    /\ \E f \in frames : spectrum_rx' = Append(spectrum_rx, f)
    /\ nsent' = nsent + 1
    /\ stale' = [stale EXCEPT !.rx = Append(@, FALSE)]
    /\ UNCHANGED <<config, running, camera_controls, spectrum, spectrum_buffer,
                   zero_reference, last_error, camera_config_tx, panicked,
                   feature_points, history, cam_started, dimension_changed>>

CameraSendsFrame == CameraSends(FrameSet, MaxFrames, MaxQueue)

(***************************************************************************)
(* The operator's actions, one per widget of the GUI.                      *)
(***************************************************************************)
\* Sender::send; camera_config_tx holds the events of the handler that sent
\* last, a handler's first send starting from the empty sequence
send(tx, event) == Append(tx, event)

\* a format box that offers its formats while the stream runs, too
SelectFormatAnytime(formats) ==
    /\ panicked = "no"
    /\ \E cf \in formats : config' = [config EXCEPT !.camera_format = Some(cf)]
    /\ UNCHANGED <<running, camera_controls, spectrum, spectrum_buffer, zero_reference,
                   last_error, spectrum_rx, camera_config_tx, panicked, feature_points,
                   history, cam_started, dimension_changed, nsent, stale>>

\* 1015-1032: one of the given formats is chosen in the format box, which
\* offers them while not running
SelectFormatOf(formats) ==
    /\ panicked = "no"
    /\ ~running
    /\ \E cf \in formats : config' = [config EXCEPT !.camera_format = Some(cf)]
    /\ UNCHANGED <<running, camera_controls, spectrum, spectrum_buffer, zero_reference,
                   last_error, spectrum_rx, camera_config_tx, panicked, feature_points,
                   history, cam_started, dimension_changed, nsent, stale>>

\* 1015-1032: a format is chosen in the format box
SelectFormat == SelectFormatOf(Formats)

\* CameraEvent::Config(image_config)
ConfigEvent(image_config) == [event |-> "Config", payload |-> <<image_config>>]

\* CameraEvent::StartStream { id, format }
StartStreamEvent(format) == [event |-> "StartStream", payload |-> <<format>>]

\* CameraEvent::StopStream
StopStreamEvent == [event |-> "StopStream", payload |-> <<>>]

\* CameraEvent::Controls(controls); the controls carried are left out
ControlsEvent == [event |-> "Controls", payload |-> <<>>]

\* the kinds of the events of a channel, in the order sent
Events(tx) == [i \in DOMAIN tx |-> tx[i].event]

\* ImageConfig::clamp(width, height), in config.rs: the window's values are
\* limited to the camera's resolution
clamp(window, width) ==
    [offset_x |-> IF window.offset_x > width THEN width ELSE window.offset_x,
     size_x   |-> IF window.size_x > width THEN width ELSE window.size_x]

\* ghost: the buffer is cleared by a control change or a stream start; the
\* frames in flight were captured before it
InFlightAtClear == [rx |-> [i \in DOMAIN stale.rx |-> TRUE], buffer |-> <<>>]

\* a start that sends StartStream without the image configuration before it
start_stream_without_config ==
    /\ \/ UNCHANGED camera_controls
       \/ \E values \in [ControlIds -> ControlValues] : camera_controls' = values
    /\ spectrum_buffer' = <<>>
    /\ history' = <<>>
    /\ camera_config_tx' = send(<<>>, StartStreamEvent(config.camera_format[1]))
    /\ cam_started' = TRUE
    /\ stale' = InFlightAtClear

\* 112-131 start_stream: the controls are read from the camera if it opens,
\* the buffer is cleared, Config and StartStream are sent
start_stream ==
    /\ \/ UNCHANGED camera_controls
       \/ \E values \in [ControlIds -> ControlValues] : camera_controls' = values
    /\ spectrum_buffer' = <<>>
    /\ history' = <<>>
    /\ camera_config_tx' = send(send(<<>>, ConfigEvent(config'.window)),
                                StartStreamEvent(config.camera_format[1]))
    /\ cam_started' = TRUE
    /\ stale' = InFlightAtClear

\* 194-196 stop_stream
stop_stream ==
    /\ camera_config_tx' = send(<<>>, StopStreamEvent)
    /\ UNCHANGED <<camera_controls, spectrum_buffer, history, cam_started, stale>>

\* 1034-1055: the Start.../Stop... button
ConnectClicked ==
    /\ panicked = "no"
    /\ IF config.camera_format # None
       THEN /\ config' = [config EXCEPT
                            !.window = clamp(@, config.camera_format[1].width)]
            /\ running' = ~running
            /\ IF ~running THEN start_stream ELSE stop_stream
            /\ UNCHANGED last_error
       ELSE /\ last_error' = Some([id |-> "Main", result |-> "Err"])
            /\ UNCHANGED <<config, running, camera_controls, spectrum_buffer, history,
                           camera_config_tx, cam_started, stale>>
    /\ UNCHANGED <<spectrum, zero_reference, spectrum_rx, panicked,
                   feature_points, dimension_changed, nsent>>

\* a handler that stops the stream on the failure of any thread
stop_on_failure(res, run) == IF res.result = "Err" THEN FALSE ELSE run

\* 1095-1103 handle_thread_result: the running flag after the result res
handle_thread_result(res, run) ==
    IF res.id = "Camera" /\ res.result = "Err" THEN FALSE ELSE run

\* 1114-1117: a result of a worker thread is received
ThreadResultReceived(results) ==
    /\ panicked = "no"
    /\ \E res \in results :
         /\ running' = handle_thread_result(res, running)
         /\ last_error' = Some(res)
    /\ UNCHANGED <<config, camera_controls, spectrum, spectrum_buffer, zero_reference,
                   spectrum_rx, camera_config_tx, panicked, feature_points, history,
                   cam_started, dimension_changed, nsent, stale>>

\* 633-670: another mode is chosen in the Linearize box; the buffer is cleared
SelectLinearize ==
    /\ panicked = "no"
    /\ running
    /\ \E mode \in Linearizes \ {config.linearize} :
         config' = [config EXCEPT !.linearize = mode]
    /\ spectrum_buffer' = <<>>
    /\ history' = <<>>
    /\ stale' = [stale EXCEPT !.buffer = <<>>]
    /\ UNCHANGED <<running, camera_controls, spectrum, zero_reference, last_error,
                   spectrum_rx, camera_config_tx, panicked, feature_points,
                   cam_started, dimension_changed, nsent>>

\* 723-734: the scaling factor of bin i (from 0): the reference's value at the
\* bin's wavelength, as an Option, divided by the bin's sum
ReferenceAtBin(cfg, i) ==
    get_value_at_wavelength(cfg.reference, get_wavelength_from_index(cfg, i))

\* 712-737: "Set Reference as Calibration"; unwrap() panics on a wavelength
\* the reference does not cover
SetCalibrationClicked ==
    /\ panicked = "no"
    /\ running
    /\ config.reference # None /\ config.scaling = None
    /\ LET n == ncols(spectrum)
       IN  IF \E i \in 0..(n - 1) : ReferenceAtBin(config, i) = None
           THEN panicked' = "reference_unwrap" /\ UNCHANGED config
           ELSE /\ config' = [config EXCEPT !.scaling =
                       Some([i \in 1..n |->
                               F32Div(ReferenceAtBin(config, i - 1)[1], spectrum[4][i])])]
                /\ UNCHANGED panicked
    /\ UNCHANGED <<running, camera_controls, spectrum, spectrum_buffer, zero_reference,
                   last_error, spectrum_rx, camera_config_tx, feature_points, history,
                   cam_started, dimension_changed, nsent, stale>>

\* 738-745: "Delete Calibration"
DeleteCalibrationClicked ==
    /\ panicked = "no"
    /\ running
    /\ config.reference # None /\ config.scaling # None
    /\ config' = [config EXCEPT !.scaling = None]
    /\ UNCHANGED <<running, camera_controls, spectrum, spectrum_buffer, zero_reference,
                   last_error, spectrum_rx, camera_config_tx, panicked, feature_points,
                   history, cam_started, dimension_changed, nsent, stale>>

\* a "Set Current As Zero Reference" that also zeroes the published spectrum
SetZeroSubtracting ==
    /\ panicked = "no"
    /\ running
    /\ zero_reference = None
    /\ zero_reference' = Some(spectrum)
    /\ spectrum' = zeros(ncols(spectrum))
    /\ UNCHANGED <<config, running, camera_controls, spectrum_buffer,
                   last_error, spectrum_rx, camera_config_tx, panicked, feature_points,
                   history, cam_started, dimension_changed, nsent, stale>>

\* 748-754: "Set Current As Zero Reference"
SetZeroClicked ==
    /\ panicked = "no"
    /\ running
    /\ zero_reference = None
    /\ zero_reference' = Some(spectrum)
    /\ UNCHANGED <<config, running, camera_controls, spectrum, spectrum_buffer,
                   last_error, spectrum_rx, camera_config_tx, panicked, feature_points,
                   history, cam_started, dimension_changed, nsent, stale>>

\* 755-761: "Clear Zero Reference"
ClearZeroClicked ==
    /\ panicked = "no"
    /\ running
    /\ zero_reference # None
    /\ zero_reference' = None
    /\ UNCHANGED <<config, running, camera_controls, spectrum, spectrum_buffer,
                   last_error, spectrum_rx, camera_config_tx, panicked, feature_points,
                   history, cam_started, dimension_changed, nsent, stale>>

\* 769-775: the "Averaging Buffer Size" slider, 1..=100, is moved
BufferSizeChanged ==
    /\ panicked = "no"
    /\ running
    /\ \E size \in (1..MaxBufferSize) \ {config.spectrum_buffer_size} :
         config' = [config EXCEPT !.spectrum_buffer_size = size]
    /\ UNCHANGED <<running, camera_controls, spectrum, spectrum_buffer, zero_reference,
                   last_error, spectrum_rx, camera_config_tx, panicked, feature_points,
                   history, cam_started, dimension_changed, nsent, stale>>

\* 824-882 and 903-908: the widget of one control is moved to another value;
\* the buffer is cleared and the changed control sent
ControlChanged ==
    /\ panicked = "no"
    /\ running
    /\ \E id \in DOMAIN camera_controls :
         \E value \in ControlValues \ {camera_controls[id]} :
             camera_controls' = [camera_controls EXCEPT ![id] = value]
    /\ spectrum_buffer' = <<>>
    /\ history' = <<>>
    /\ camera_config_tx' = send(<<>>, ControlsEvent)
    /\ stale' = InFlightAtClear
    /\ UNCHANGED <<config, running, spectrum, zero_reference, last_error, spectrum_rx,
                   panicked, feature_points, cam_started, dimension_changed, nsent>>

\* 883-902: "All default": every control is set to its default and all
\* controls are sent
AllDefaultClicked ==
    /\ panicked = "no"
    /\ running
    /\ camera_controls' = [id \in DOMAIN camera_controls |-> DefaultControl]
    /\ camera_config_tx' = send(<<>>, ControlsEvent)
    /\ stale' = IF camera_controls' = camera_controls THEN stale
                ELSE [rx     |-> [i \in DOMAIN stale.rx |-> TRUE],
                      buffer |-> [i \in DOMAIN stale.buffer |-> TRUE]]
    /\ UNCHANGED <<config, running, spectrum, spectrum_buffer, zero_reference,
                   last_error, spectrum_rx, panicked, feature_points, history,
                   cam_started, dimension_changed, nsent>>

\* an import whose failure also drops the reference loaded before
ImportDroppingReference ==
    /\ panicked = "no"
    /\ running
    /\ \/ \E r \in ReferenceSet :
            /\ config' = [config EXCEPT !.reference = Some(r)]
            /\ last_error' = Some([id |-> "Main", result |-> "Ok"])
       \/ /\ last_error' = Some([id |-> "Main", result |-> "Err"])
          /\ config' = [config EXCEPT !.reference = None]
    /\ UNCHANGED <<running, camera_controls, spectrum, spectrum_buffer, zero_reference,
                   spectrum_rx, camera_config_tx, panicked, feature_points, history,
                   cam_started, dimension_changed, nsent, stale>>

\* 921-940: "Import Reference CSV": the file is read or not
ImportClicked ==
    /\ panicked = "no"
    /\ running
    /\ \/ \E r \in ReferenceSet :
            /\ config' = [config EXCEPT !.reference = Some(r)]
            /\ last_error' = Some([id |-> "Main", result |-> "Ok"])
       \/ /\ last_error' = Some([id |-> "Main", result |-> "Err"])
          /\ UNCHANGED config
    /\ UNCHANGED <<running, camera_controls, spectrum, spectrum_buffer, zero_reference,
                   spectrum_rx, camera_config_tx, panicked, feature_points, history,
                   cam_started, dimension_changed, nsent, stale>>

\* 941-947: "Delete Reference"
DeleteReferenceClicked ==
    /\ panicked = "no"
    /\ running
    /\ config.reference # None
    /\ config' = [config EXCEPT !.reference = None]
    /\ UNCHANGED <<running, camera_controls, spectrum, spectrum_buffer, zero_reference,
                   last_error, spectrum_rx, camera_config_tx, panicked, feature_points,
                   history, cam_started, dimension_changed, nsent, stale>>

(***************************************************************************)
(* spectrum_to_peaks_and_dips (gui.rs 300-394).                            *)
(***************************************************************************)
\* 305: peaks_dips_find_window * 2 + 1
windows_size(cfg) == cfg.peaks_dips_find_window * 2 + 1

\* a centre at the window's first sample
first_index(cfg) == 0

\* 306: (windows_size - 1) / 2
mid_index(cfg) == (windows_size(cfg) - 1) \div 2

\* a test that lets samples equal to the centre pass
IsExtremumOrEqual(win, mid, peaks) ==
    \A j \in 1..Len(win) :
        j # mid + 1 => IF peaks THEN F32Le(win[j], win[mid + 1])
                                ELSE F32Le(win[mid + 1], win[j])

\* 315-323: every sample of the window but the one at mid (from 0) is below
\* it (peaks) or above it (dips)
IsExtremum(win, mid, peaks) ==
    \A j \in 1..Len(win) :
        j # mid + 1 => IF peaks THEN F32Lt(win[j], win[mid + 1])
                                ELSE F32Gt(win[j], win[mid + 1])

\* 314-332: the windows of the sum row in order, window i (from 0) covering
\* the samples i..i+windows_size-1; a SpectrumPoint per extremal centre
\* (index is the centre's bin, kept beside the point's two fields)
FindPeaksDips(sum, cfg, peaks) ==
    LET size   == windows_size(cfg)
        mid    == mid_index(cfg)
        count  == IF Len(sum) >= size THEN Len(sum) - size + 1 ELSE 0
        win(i) == SubSeq(sum, i + 1, i + size)
        Hit(i) == IsExtremum(win(i), mid, peaks)
        hits   == SelectSeq([k \in 1..count |-> k - 1], Hit)
    IN  [k \in 1..Len(hits) |->
            [index      |-> hits[k] + mid,
             wavelength |-> get_wavelength_from_index(cfg, hits[k] + mid),
             value      |-> win(hits[k])[mid + 1]]]

\* a unique window that takes in its two ends
InClosedUniqueWindow(sp, peak_dip, window) ==
    /\ F32Le(F32Sub(peak_dip.wavelength, F32Div(window, Num(2))), sp.wavelength)
    /\ F32Le(sp.wavelength, F32Add(peak_dip.wavelength, F32Div(window, Num(2))))

\* 344-345: sp lies in the unique window of peak_dip
InUniqueWindow(sp, peak_dip, window) ==
    /\ F32Gt(sp.wavelength, F32Sub(peak_dip.wavelength, F32Div(window, Num(2))))
    /\ F32Lt(sp.wavelength, F32Add(peak_dip.wavelength, F32Div(window, Num(2))))

\* a reduction that keeps the last value it is given
last_value(values, peaks) ==
    IF values = <<>> THEN None ELSE Some(values[Len(values)])

\* Iterator::reduce(f32::max) / reduce(f32::min), as an Option
RECURSIVE ReduceValues(_, _)
ReduceValues(values, peaks) ==
    IF values = <<>> THEN None
    ELSE IF Len(values) = 1 THEN Some(values[1])
    ELSE LET front == ReduceValues(SubSeq(values, 1, Len(values) - 1), peaks)[1]
             last  == values[Len(values)]
         IN  Some(IF peaks THEN F32Max(front, last) ELSE F32Min(front, last))

\* 341-348: the best value among the points in the unique window of peak_dip
BestInWindow(peaks_dips, peak_dip, window, peaks) ==
    LET In(sp) == InUniqueWindow(sp, peak_dip, window)
        near   == SelectSeq(peaks_dips, In)
    IN  ReduceValues([k \in 1..Len(near) |-> near[k].value], peaks)

\* 339-351: the points whose value is the best of their unique window
FilterPeaksDips(peaks_dips, window, peaks) ==
    LET Keep(peak_dip) ==
            peak_dip.value = BestInWindow(peaks_dips, peak_dip, window, peaks)[1]
    IN  SelectSeq(peaks_dips, Keep)

\* 349: unwrap() panics for a point with nothing in its unique window
ReducePanics(peaks_dips, window, peaks) ==
    \E k \in 1..Len(peaks_dips) :
        BestInWindow(peaks_dips, peaks_dips[k], window, peaks) = None

\* 300-394: the peaks or dips of the sum row of the spectrum sp and those
\* that survive the filter, as an Option: None where the reduction's unwrap()
\* panics
PeaksAndDips(sp, cfg, peaks) ==
    LET found  == FindPeaksDips(sp[4], cfg, peaks)
        window == cfg.peaks_dips_unique_window
    IN  IF ReducePanics(found, window, peaks) THEN None
        ELSE Some([peaks               |-> peaks,
                   peaks_dips          |-> found,
                   filtered_peaks_dips |-> FilterPeaksDips(found, window, peaks)])

\* draw_spectrum 450-467 calling spectrum_to_peaks_and_dips(peaks)
spectrum_to_peaks_and_dips(peaks) ==
    /\ panicked = "no"
    /\ LET drawn == PeaksAndDips(spectrum, config, peaks)
       IN  IF drawn = None
           THEN panicked' = "reduce_unwrap" /\ UNCHANGED feature_points
           ELSE feature_points' = drawn /\ UNCHANGED panicked
    /\ UNCHANGED <<config, running, camera_controls, spectrum, spectrum_buffer,
                   zero_reference, last_error, spectrum_rx, camera_config_tx, history,
                   cam_started, dimension_changed, nsent, stale>>

DrawPeaks == spectrum_to_peaks_and_dips(TRUE)

DrawDips == spectrum_to_peaks_and_dips(FALSE)

(***************************************************************************)
(* Specifications.  Each takes the actions of one part of the program.     *)
(***************************************************************************)
\* The pipeline: frames, the averaging buffer, the zero reference, and every
\* operator action that touches them.
Next ==
    \/ update_spectrum
    \/ CameraSendsFrame
    \/ SelectFormat
    \/ ConnectClicked
    \/ ThreadResultReceived(ThreadFailures)
    \/ SelectLinearize
    \/ SetZeroClicked
    \/ ClearZeroClicked
    \/ BufferSizeChanged
    \/ ControlChanged
    \/ AllDefaultClicked

Spec == Init /\ [][Next]_vars

\* Reference-based calibration: the reference curve and the scaling vector.
NextCalibration ==
    \/ update_spectrum
    \/ CameraSendsFrame
    \/ SelectFormat
    \/ ConnectClicked
    \/ ImportClicked
    \/ DeleteReferenceClicked
    \/ SetCalibrationClicked
    \/ DeleteCalibrationClicked

SpecCalibration == Init /\ [][NextCalibration]_vars

\* The detector.  Bounds of its inputs:
\* longest sum row
MaxSumLen == 5
\* largest sample of the sum row
MaxSample == 2
\* largest "Peaks/Dips Find Window" (code: 200)
MaxFindWindow == 2

\* "Peaks/Dips Filter Window" values explored (code: 1.0..=200.0)
UniqueWindows == {Num(1), Num(4), Num(5)}

SumRows == UNION { [1..n -> 0..MaxSample] : n \in 0..MaxSumLen }

\* The program after a stream was started and, unless the row is empty, one
\* frame whose red channel is the row was received; the find and unique
\* windows are those of the persisted configuration, the anchors one bin
\* per nanometre.
InitDetector ==
    \E row \in SumRows, w \in 1..MaxFindWindow, d \in UniqueWindows, cf \in Formats :
      LET n     == Len(row)
          frame == Frame(row, [i \in 1..n |-> 0], [i \in 1..n |-> 0])
      IN  /\ config = [InitConfig EXCEPT !.camera_format = Some(cf),
                                         !.low = [index |-> 0, wavelength |-> 400],
                                         !.high = [index |-> 4, wavelength |-> 404],
                                         !.peaks_dips_find_window = w,
                                         !.peaks_dips_unique_window = d]
          /\ running = TRUE
          /\ camera_controls = [id \in ControlIds |-> DefaultControl]
          /\ spectrum = IF n = 0 THEN zeros(0) ELSE <<frame[1], frame[2], frame[3], frame[1]>>
          /\ spectrum_buffer = IF n = 0 THEN <<>> ELSE <<frame>>
          /\ zero_reference = None
          /\ last_error = None
          /\ spectrum_rx = <<>>
          /\ camera_config_tx = <<ConfigEvent(InitConfig.window),
                                  StartStreamEvent(cf)>>
          /\ panicked = "no"
          /\ feature_points = None
          /\ history = IF n = 0 THEN <<>> ELSE <<frame>>
          /\ cam_started = TRUE
          /\ dimension_changed = FALSE
          /\ nsent = IF n = 0 THEN 0 ELSE 1
          /\ stale = [rx |-> <<>>, buffer |-> IF n = 0 THEN <<>> ELSE <<FALSE>>]

NextDetector == DrawPeaks \/ DrawDips

SpecDetector == InitDetector /\ [][NextDetector]_vars

(***************************************************************************)
(* Properties of the averaging buffer and the zero reference.              *)
(***************************************************************************)
\* a step of update(), 1110-1112, that takes a frame from the channel and
\* calls update_spectrum
UpdateStep == spectrum_rx # <<>> /\ spectrum_rx' = Tail(spectrum_rx)

\* C1: whenever update_spectrum subtracts the zero reference (the one left
\* after the dimension check), the zero reference has the bin count of the
\* frame the spectrum is built from.
C1_ZeroReferenceHasSpectrumBins ==
    [][UpdateStep /\ zero_reference' # None
          => ncols(zero_reference'[1]) = ncols(Head(spectrum_rx))]_vars

\* C2: when update_spectrum receives a frame whose bin count differs from
\* that of a buffered frame, the buffer afterwards has length 1 and holds only
\* the new frame (linearized as the mode says), and the zero reference is
\* absent.
C2_DimensionChangeRestartsBuffer ==
    [][(/\ UpdateStep
        /\ \E k \in 1..Len(spectrum_buffer) :
              ncols(spectrum_buffer[k]) # ncols(Head(spectrum_rx)))
          => /\ Len(spectrum_buffer') = 1
             /\ spectrum_buffer' = <<LinearizeFrame(config.linearize, Head(spectrum_rx))>>
             /\ zero_reference' = None]_vars

\* C2, reached: the last update_spectrum found another bin count and left a
\* buffer of the one new frame and no zero reference.
C2_Reached ==
    /\ dimension_changed
    /\ nsent >= 2
    /\ Len(spectrum_buffer) = 1
    /\ Len(history) = 1
    /\ ncols(spectrum) = ncols(spectrum_buffer[1])
    /\ zero_reference = None
    /\ panicked = "no"

\* C3: in every reachable state all frames of the averaging buffer have the
\* same bin count.
C3_BufferFramesShareBins ==
    \A j, k \in 1..Len(spectrum_buffer) :
        ncols(spectrum_buffer[j]) = ncols(spectrum_buffer[k])

\* C3, reached: three frames were sent and the buffer holds two frames, of
\* two bins each.
C3_Reached ==
    /\ nsent = 3
    /\ spectrum_rx = <<>>
    /\ Len(spectrum_buffer) = 2
    /\ ncols(spectrum_buffer[1]) = 2
    /\ ncols(spectrum_buffer[2]) = 2

\* C4: right after every update_spectrum the buffer length L satisfies
\* 1 <= L <= bufferSize and the buffer is the L most recent frames accepted
\* since the last clear, newest first.
C4_BufferHoldsMostRecent ==
    [][UpdateStep
          => /\ 1 <= Len(spectrum_buffer')
             /\ Len(spectrum_buffer') <= config.spectrum_buffer_size
             /\ Len(spectrum_buffer') <= Len(history')
             /\ spectrum_buffer' = SubSeq(history', 1, Len(spectrum_buffer'))]_vars

\* C4, reached: three frames were accepted since the last clear and, the
\* buffer size being 2, the oldest was dropped.
C4_Reached ==
    /\ config.spectrum_buffer_size = 2
    /\ Len(history) = 3
    /\ spectrum_buffer = SubSeq(history, 1, 2)
    /\ spectrum_rx = <<>>
    /\ spectrum_buffer[1] # spectrum_buffer[2]
    /\ history[3] # history[2]

\* the value of some camera control is changed by the step
ControlValueChanged ==
    /\ DOMAIN camera_controls' = DOMAIN camera_controls
    /\ \E id \in DOMAIN camera_controls : camera_controls'[id] # camera_controls[id]

\* C5: every operator action that changes the linearization mode or the
\* value of a camera control leaves the averaging buffer empty.
C5_ChangeLeavesBufferEmpty ==
    [][(config'.linearize # config.linearize \/ ControlValueChanged)
          => spectrum_buffer' = <<>>]_vars

(***************************************************************************)
(* Properties of the reference-based calibration.                          *)
(***************************************************************************)
\* the wavelength of some bin of the current spectrum lies outside the
\* reference curve
BinOutsideReference ==
    /\ config.reference # None
    /\ \E i \in 0..(ncols(spectrum) - 1) : ReferenceAtBin(config, i) = None

\* C6: "Set Reference as Calibration" with a bin outside the reference curve
\* produces no scaling vector, leaves the scaling vector and the pipeline
\* state as they are, and does not end the process.
C6_OutsideReferenceChangesNothing ==
    [][(SetCalibrationClicked /\ BinOutsideReference)
          => /\ UNCHANGED <<config, spectrum, spectrum_buffer, zero_reference>>
             /\ panicked' = "no"]_vars

(***************************************************************************)
(* Properties of the detector.                                             *)
(***************************************************************************)
\* the row the detector reads, its length, and the half-width W
Sum == spectrum[4]

SumLen == Len(Sum)

FindWindow == config.peaks_dips_find_window

\* the row has one strict global maximum, at index m (from 0)
StrictGlobalMax(m) ==
    /\ m \in 0..(SumLen - 1)
    /\ \A j \in 0..(SumLen - 1) : j # m => F32Lt(Sum[j + 1], Sum[m + 1])

\* the bins of a sequence of points
Indices(points) == [k \in 1..Len(points) |-> points[k].index]

\* the detector ran in peak mode on a row with one strict global maximum, at
\* m, and a window of 2W+1 samples that covers the whole row
PeaksOfCoveredRow(m) ==
    /\ feature_points # None
    /\ feature_points[1].peaks
    /\ SumLen >= 1
    /\ StrictGlobalMax(m)
    /\ 2 * FindWindow + 1 >= SumLen

\* C7 as stated: on a row of any length N >= 1 with one strict global maximum
\* at any index m and a window covering the whole row, peak detection returns
\* exactly one peak, at m.
C7_OnePeakAtGlobalMax ==
    \A m \in 0..(SumLen - 1) :
        PeaksOfCoveredRow(m)
            => Indices(feature_points[1].filtered_peaks_dips) = <<m>>

\* C7, amended: on such a row peak detection returns exactly one peak, at m,
\* when the row is one full window centred on the maximum (N = 2W+1, m = W),
\* and no peak in every other case.
C7_OnePeakOnlyAtCentre ==
    \A m \in 0..(SumLen - 1) :
        PeaksOfCoveredRow(m)
            => LET expected == IF SumLen = 2 * FindWindow + 1 /\ m = FindWindow
                               THEN <<m>> ELSE <<>>
               IN  /\ Indices(feature_points[1].peaks_dips) = expected
                   /\ Indices(feature_points[1].filtered_peaks_dips) = expected

\* C7, reached: a row of five bins with its maximum in the middle and W = 2
\* gave the one peak, and the maximum is not the only non-zero sample.
C7_Reached ==
    /\ PeaksOfCoveredRow(2)
    /\ SumLen = 5
    /\ FindWindow = 2
    /\ Sum[1] # Sum[2]
    /\ Indices(feature_points[1].filtered_peaks_dips) = <<2>>

\* a is better than b: higher in peak mode, lower in dip mode
Better(a, b, peaks) == IF peaks THEN F32Gt(a.value, b.value) ELSE F32Lt(a.value, b.value)

\* the wavelengths of a and b are less than d/2 apart
Near(a, b, d) ==
    LET diff == F32Sub(a.wavelength, b.wavelength)
        dist == IF F32Lt(diff, Num(0)) THEN F32Neg(diff) ELSE diff
    IN  F32Lt(dist, F32Div(d, Num(2)))

\* the best value of a non-empty set of points
BestValue(points, peaks) ==
    (CHOOSE p \in points : \A q \in points : ~Better(q, p, peaks)).value

\* C8: a candidate survives deduplication iff its value equals the maximum
\* (peaks) or minimum (dips) over the candidates, itself included, whose
\* wavelength is less than D/2 from its own; so of two candidates in each
\* other's window the strictly worse one is removed, and two of identical
\* value do not remove each other.
C8_SurvivesIffBestOfNeighbourhood ==
    feature_points # None =>
        LET fp        == feature_points[1]
            d         == config.peaks_dips_unique_window
            cands     == { fp.peaks_dips[k] : k \in 1..Len(fp.peaks_dips) }
            survivors == { fp.filtered_peaks_dips[k] :
                              k \in 1..Len(fp.filtered_peaks_dips) }
            hood(c)   == { x \in cands : Near(x, c, d) }
            Best(c)   == c.value = BestValue(hood(c), fp.peaks)
        IN  /\ \A c \in cands : c \in hood(c)
            /\ fp.filtered_peaks_dips = SelectSeq(fp.peaks_dips, Best)
            /\ \A a, b \in cands :
                  Near(a, b, d) /\ Better(b, a, fp.peaks) => a \notin survivors
            /\ \A a, b \in cands :
                  (/\ Near(a, b, d)
                   /\ a.value = b.value
                   /\ \A x \in hood(a) \cup hood(b) : ~Better(x, a, fp.peaks))
                      => a \in survivors /\ b \in survivors

\* C8, reached: of two peaks in each other's unique window the lower one was
\* removed and the higher one survived.
C8_Reached ==
    /\ feature_points # None
    /\ feature_points[1].peaks
    /\ Len(feature_points[1].peaks_dips) = 2
    /\ Near(feature_points[1].peaks_dips[1], feature_points[1].peaks_dips[2],
            config.peaks_dips_unique_window)
    /\ F32Lt(feature_points[1].peaks_dips[1].value, feature_points[1].peaks_dips[2].value)
    /\ feature_points[1].filtered_peaks_dips = <<feature_points[1].peaks_dips[2]>>

\* index c (from 0) is a full-window centre whose sample is strictly above
\* (peaks) or below (dips) every other sample of [c-W, c+W]
StrictExtremumAt(c, peaks) ==
    /\ FindWindow <= c
    /\ c <= SumLen - 1 - FindWindow
    /\ \A j \in (c - FindWindow)..(c + FindWindow) :
          j # c => IF peaks THEN F32Lt(Sum[j + 1], Sum[c + 1])
                            ELSE F32Gt(Sum[j + 1], Sum[c + 1])

\* C9: index c is a candidate iff W <= c <= N-1-W and Sum[c] is strictly
\* greater (peaks) or less (dips) than every other sample of [c-W, c+W]; the
\* candidates come in the order of their bins, each with the sample and the
\* wavelength of its bin, and there is none when N < 2W+1.
C9_CandidateIffStrictExtremum ==
    feature_points # None =>
        LET fp    == feature_points[1]
            found == fp.peaks_dips
        IN  /\ { found[k].index : k \in 1..Len(found) }
                  = { c \in 0..(SumLen - 1) : StrictExtremumAt(c, fp.peaks) }
            /\ \A k \in 1..(Len(found) - 1) : found[k].index < found[k + 1].index
            /\ \A k \in 1..Len(found) :
                  /\ found[k].value = Sum[found[k].index + 1]
                  /\ found[k].wavelength = get_wavelength_from_index(config, found[k].index)
            /\ SumLen < 2 * FindWindow + 1 => found = <<>>

\* C9, reached: peak mode found the candidate at bin 1 and passed over bin 3,
\* a full-window centre that one neighbour equals and none exceeds.
C9_Reached ==
    /\ feature_points # None
    /\ feature_points[1].peaks
    /\ FindWindow = 1
    /\ SumLen = 5
    /\ Indices(feature_points[1].peaks_dips) = <<1>>
    /\ Sum[4] = Sum[5]
    /\ F32Lt(Sum[3], Sum[4])

(***************************************************************************)
(* Properties of the mean.                                                 *)
(***************************************************************************)
\* the sum of the samples at channel k, bin i over the first j frames
RECURSIVE SampleSum(_, _, _, _)
SampleSum(buffer, k, i, j) ==
    IF j = 0 THEN Num(0) ELSE F32Add(SampleSum(buffer, k, i, j - 1), buffer[j][k][i])

\* per channel and bin, the sum over the buffered frames divided by their number
PerBinMean(buffer) ==
    [k \in 1..3 |-> [i \in 1..ncols(buffer[1]) |->
        F32Div(SampleSum(buffer, k, i, Len(buffer)), Num(Len(buffer)))]]

\* C10: the channel rows update_spectrum publishes (unit gains, no filter;
\* the zero reference, if any, added back) are, per channel and bin, the sum
\* over the buffered frames divided by the buffer's length; a buffer of
\* identical frames yields that frame; the frames 1, 2, 3 yield R = G = B = 2
\* and Sum = 6.
C10_MeanDividesByLength ==
    [][(UpdateStep /\ panicked' = "no")
          => LET built == IF zero_reference' # None
                          THEN MatAdd(spectrum', zero_reference'[1]) ELSE spectrum'
                 mean  == PerBinMean(spectrum_buffer')
             IN  /\ <<built[1], built[2], built[3]>> = mean
                 /\ built[4] = row_sum(mean)
                 /\ (\A j \in 1..Len(spectrum_buffer') :
                        spectrum_buffer'[j] = spectrum_buffer'[1])
                       => <<built[1], built[2], built[3]>> = spectrum_buffer'[1]
                 /\ (/\ { spectrum_buffer'[j] : j \in 1..Len(spectrum_buffer') }
                           = { Flat(1), Flat(2), Flat(3) }
                     /\ Len(spectrum_buffer') = 3)
                       => built = <<<<Num(2)>>, <<Num(2)>>, <<Num(2)>>, <<Num(6)>>>>]_vars

\* C10, reached: with buffer size 3 and no zero reference the frames 1, 2, 3
\* were averaged to R = G = B = 2 and Sum = 6.
C10_Reached ==
    /\ config.spectrum_buffer_size = 3
    /\ config.linearize = "Off"
    /\ zero_reference = None
    /\ spectrum_buffer = <<Flat(3), Flat(2), Flat(1)>>
    /\ spectrum = <<<<Num(2)>>, <<Num(2)>>, <<Num(2)>>, <<Num(6)>>>>

(***************************************************************************)
(* Gains and the low-pass filter.                                          *)
(***************************************************************************)
\* the gains the sliders "Gain R/G/B" (0.0..=10.) are moved to
GainValues == {Num(1), Num(2)}

\* the three gain sliders
GainSliders == {"gain_r", "gain_g", "gain_b"}

\* 671-682: one of the given gain sliders is moved to another value
GainSliderMoved(sliders) ==
    /\ panicked = "no"
    /\ running
    /\ \E g \in GainValues :
         \/ "gain_r" \in sliders /\ g # config.gain_r
                                 /\ config' = [config EXCEPT !.gain_r = g]
         \/ "gain_g" \in sliders /\ g # config.gain_g
                                 /\ config' = [config EXCEPT !.gain_g = g]
         \/ "gain_b" \in sliders /\ g # config.gain_b
                                 /\ config' = [config EXCEPT !.gain_b = g]
    /\ UNCHANGED <<running, camera_controls, spectrum, spectrum_buffer, zero_reference,
                   last_error, spectrum_rx, camera_config_tx, panicked, feature_points,
                   history, cam_started, dimension_changed, nsent, stale>>

\* 671-682: one of the three gain sliders is moved
GainChanged == GainSliderMoved(GainSliders)

\* 778-781: the "Low-Pass Filter" checkbox is toggled
FilterToggled ==
    /\ panicked = "no"
    /\ running
    /\ config' = [config EXCEPT !.spectrum_filter_active = ~config.spectrum_filter_active]
    /\ UNCHANGED <<running, camera_controls, spectrum, spectrum_buffer, zero_reference,
                   last_error, spectrum_rx, camera_config_tx, panicked, feature_points,
                   history, cam_started, dimension_changed, nsent, stale>>

\* Bounds of the processing specification: frames sent in one run
MaxProcessingFrames == 2

\* the frames it sends: one of one bin, one of two bins
ProcessingFrames == { Flat(1), Frame(<<1, 3>>, <<2, 1>>, <<0, 2>>) }

CameraSendsProcessingFrame == CameraSends(ProcessingFrames, MaxProcessingFrames, MaxQueue)

\* Processing: gains, the filter and the zero reference.
NextProcessing ==
    \/ update_spectrum
    \/ CameraSendsProcessingFrame
    \/ SelectFormat
    \/ ConnectClicked
    \/ GainChanged
    \/ FilterToggled
    \/ SetZeroClicked
    \/ ClearZeroClicked

SpecProcessing == Init /\ [][NextProcessing]_vars

(***************************************************************************)
(* Properties of the processing chain.                                     *)
(***************************************************************************)
\* the factor of bin i (from 0): the entry of the scaling vector, 1 without one
ScalingFactorOf(scaling, i) ==
    IF scaling = None THEN Num(1)
    ELSE IF i + 1 <= Len(scaling[1]) THEN scaling[1][i + 1] ELSE Num(1)

\* the spectrum assembled from a buffer: each channel row its gain times the
\* per-bin mean, the sum row their sum times the bin's scaling factor
Assembled(buffer, cfg) ==
    LET mean == PerBinMean(buffer)
        n    == ncols(buffer[1])
        r    == [i \in 1..n |-> F32Mul(cfg.gain_r, mean[1][i])]
        g    == [i \in 1..n |-> F32Mul(cfg.gain_g, mean[2][i])]
        b    == [i \in 1..n |-> F32Mul(cfg.gain_b, mean[3][i])]
    IN  <<r, g, b,
          [i \in 1..n |-> F32Mul(F32Add(F32Add(r[i], g[i]), b[i]),
                                 ScalingFactorOf(cfg.scaling, i - 1))]>>

\* the spectrum of one bin with the given rows
OneBin(r, g, b, sum) == <<<<Num(r)>>, <<Num(g)>>, <<Num(b)>>, <<Num(sum)>>>>

\* C11: while a zero reference stays set its value does not change, and every
\* spectrum update_spectrum publishes is, on all four rows, the assembled
\* (and, if the filter is on, filtered) spectrum minus the zero reference;
\* zero reference {1,1,1,3} and assembled {2,2,2,6} publish {1,1,1,3}.
C11_PublishedIsAssembledMinusZero ==
    [][/\ (zero_reference # None /\ zero_reference' # None)
              => zero_reference' = zero_reference
       /\ (UpdateStep /\ panicked' = "no" /\ zero_reference' # None)
              => LET built == FilterSpectrum(Assembled(spectrum_buffer', config), config)
                     zero  == zero_reference'[1]
                 IN  /\ \A k \in 1..4 : \A i \in 1..ncols(built) :
                            spectrum'[k][i] = F32Sub(built[k][i], zero[k][i])
                     /\ (zero = OneBin(1, 1, 1, 3) /\ built = OneBin(2, 2, 2, 6))
                            => spectrum' = OneBin(1, 1, 1, 3)]_vars

\* C11, reached: the zero reference {1,1,1,3} is set and a later frame,
\* assembled with the red gain 2 to {2,1,1,4}, was published as {1,0,0,1}.
C11_Reached ==
    /\ zero_reference = Some(OneBin(1, 1, 1, 3))
    /\ config.gain_r = Num(2) /\ config.gain_g = Num(1) /\ config.gain_b = Num(1)
    /\ ~config.spectrum_filter_active
    /\ spectrum_buffer = <<Flat(1), Flat(1)>>
    /\ spectrum = OneBin(1, 0, 0, 1)
    /\ panicked = "no"

\* C12: in every reachable state in which a scaling vector is set, its length
\* is the bin count of the published spectrum.
C12_ScalingHasSpectrumLength ==
    config.scaling # None => Len(config.scaling[1]) = ncols(spectrum)

\* Scaling: gains, the reference curve, the scaling vector and the zero
\* reference, with the filter left disabled.
MaxScalingFrames == 3

\* one two-bin frame whose channels differ
ScalingFrames == { Frame(<<1, 3>>, <<2, 1>>, <<0, 2>>) }

CameraSendsScalingFrame == CameraSends(ScalingFrames, MaxScalingFrames, MaxQueue)

\* 671-673: the slider "Gain R" is moved
RedGainChanged == GainSliderMoved({"gain_r"})

NextScaling ==
    \/ update_spectrum
    \/ CameraSendsScalingFrame
    \/ SelectFormat
    \/ ConnectClicked
    \/ RedGainChanged
    \/ ImportClicked
    \/ SetCalibrationClicked
    \/ DeleteCalibrationClicked
    \/ SetZeroClicked
    \/ ClearZeroClicked

SpecScaling == Init /\ [][NextScaling]_vars

\* Sum minus (R + G + B) of a four-row matrix at bin i
SumExcess(m, i) == F32Sub(m[4][i], F32Add(F32Add(m[1][i], m[2][i]), m[3][i]))

\* the spectrum is published while no scaling vector is set and the filter is
\* disabled
PublishedUnscaled ==
    /\ UpdateStep
    /\ panicked' = "no"
    /\ config.scaling = None
    /\ ~config.spectrum_filter_active

\* C13 as stated: every spectrum published while no scaling vector is set and
\* the filter is disabled has Sum[i] = R[i] + G[i] + B[i] in every bin, also
\* when a zero reference is subtracted.
C13_SumIsChannelSum ==
    [][PublishedUnscaled =>
          \A i \in 1..ncols(spectrum') : SumExcess(spectrum', i) = Num(0)]_vars

\* C13: in every spectrum published while no scaling vector is set and the
\* filter is disabled, Sum[i] = R[i] + G[i] + B[i] in every bin when no zero
\* reference is subtracted or the subtracted zero reference has Sum = R + G + B
\* itself; in general Sum[i] - (R[i] + G[i] + B[i]) is the negated difference
\* Sum - (R + G + B) of the subtracted zero reference at bin i.
C13_SumExcessIsZeroReferences ==
    [][PublishedUnscaled =>
          \A i \in 1..ncols(spectrum') :
              SumExcess(spectrum', i) =
                  IF zero_reference' = None THEN Num(0)
                  ELSE F32Neg(SumExcess(zero_reference'[1], i))]_vars

\* a spectrum of two bins published with gain_r = 2 minus a zero reference
\* that was captured with all gains 1: both have Sum = R + G + B
C13_Reached ==
    /\ panicked = "no"
    /\ config.scaling = None
    /\ ~config.spectrum_filter_active
    /\ config.gain_r = Num(2)
    /\ zero_reference = Some(<< <<Num(1), Num(3)>>, <<Num(2), Num(1)>>,
                                <<Num(0), Num(2)>>, <<Num(3), Num(6)>> >>)
    /\ spectrum = << <<Num(1), Num(3)>>, <<Num(0), Num(0)>>,
                     <<Num(0), Num(0)>>, <<Num(1), Num(3)>> >>

(***************************************************************************)
(* The anchor sliders of the calibration window and the window sliders of  *)
(* the camera window.                                                      *)
(***************************************************************************)
\* the values an egui Slider over start..=end sets: it clamps to the interval
\* between the smaller and the larger of the two ends
Slider(start, end) == IF start <= end THEN start..end ELSE end..start

\* the wavelengths the wavelength sliders are moved to
AnchorWavelengths == {200, 400, 401, 600, 2000}

Unchanged_but_config ==
    UNCHANGED <<running, camera_controls, spectrum, spectrum_buffer, zero_reference,
                last_error, spectrum_rx, camera_config_tx, panicked, feature_points,
                history, cam_started, dimension_changed, nsent, stale>>

\* 602-608: the slider "Low Wavelength", 200..=high.wavelength - 1
LowWavelengthChanged ==
    /\ panicked = "no"
    /\ running
    /\ \E w \in Slider(200, config.high.wavelength - 1) \cap AnchorWavelengths :
         /\ w # config.low.wavelength
         /\ config' = [config EXCEPT !.low.wavelength = w]
    /\ Unchanged_but_config

\* 609-615: the slider "Low Index", 0..=high.index - 1
LowIndexChanged ==
    /\ panicked = "no"
    /\ running
    /\ \E i \in Slider(0, config.high.index - 1) :
         /\ i # config.low.index
         /\ config' = [config EXCEPT !.low.index = i]
    /\ Unchanged_but_config

\* 617-623: the slider "High Wavelength", (low.wavelength + 1)..=2000
HighWavelengthChanged ==
    /\ panicked = "no"
    /\ running
    /\ \E w \in Slider(config.low.wavelength + 1, 2000) \cap AnchorWavelengths :
         /\ w # config.high.wavelength
         /\ config' = [config EXCEPT !.high.wavelength = w]
    /\ Unchanged_but_config

\* 624-631: the slider "High Index", (low.index + 1)..=window.size.x
HighIndexChanged ==
    /\ panicked = "no"
    /\ running
    /\ \E i \in Slider(config.low.index + 1, config.window.size_x) :
         /\ i # config.high.index
         /\ config' = [config EXCEPT !.high.index = i]
    /\ Unchanged_but_config

\* 524-533: the slider "Offset X", 1..=width - 1
WindowOffsetXChanged ==
    /\ panicked = "no"
    /\ running
    /\ \E x \in Slider(1, config.camera_format[1].width - 1) :
         /\ x # config.window.offset_x
         /\ config' = [config EXCEPT !.window.offset_x = x]
    /\ Unchanged_but_config

\* 545-557: the slider "Size X", 1..=width - offset.x - 1
WindowSizeXChanged ==
    /\ panicked = "no"
    /\ running
    /\ \E x \in Slider(1, config.camera_format[1].width - config.window.offset_x - 1) :
         /\ x # config.window.size_x
         /\ config' = [config EXCEPT !.window.size_x = x]
    /\ Unchanged_but_config

NextAnchors ==
    \/ SelectFormat
    \/ ConnectClicked
    \/ LowWavelengthChanged
    \/ LowIndexChanged
    \/ HighWavelengthChanged
    \/ HighIndexChanged
    \/ WindowOffsetXChanged
    \/ WindowSizeXChanged

SpecAnchors == Init /\ [][NextAnchors]_vars

\* C14: in every reachable state the anchors satisfy low.index < high.index
\* and low.wavelength < high.wavelength.
C14_AnchorsOrdered ==
    /\ config.low.index < config.high.index
    /\ config.low.wavelength < config.high.wavelength

\* the pipeline's state: everything update_spectrum reads or writes except
\* the reference curve
PipelineState ==
    <<spectrum, spectrum_buffer, zero_reference, spectrum_rx, running, panicked,
      [config EXCEPT !.reference = None]>>

\* C15: an import that fails records an error and leaves the reference loaded
\* before and the pipeline's state as they were; an import that succeeds
\* records OK, leaves the pipeline's state as it was and makes the imported
\* curve the reference, whatever the reference was before.
C15_ImportReplacesOrKeeps ==
    [][ImportClicked =>
          /\ PipelineState' = PipelineState
          /\ last_error' # None
          /\ last_error'[1].id = "Main"
          /\ last_error'[1].result = "Err" => config'.reference = config.reference
          /\ last_error'[1].result = "Ok" =>
                /\ config'.reference # None
                /\ config'.reference[1] \in ReferenceSet]_vars

\* a failed import after a successful one: the reference is still loaded
C15_Reached ==
    /\ config.reference # None
    /\ last_error = Some([id |-> "Main", result |-> "Err"])
    /\ spectrum # zeros(0)

(***************************************************************************)
(* Result events of the worker threads.                                    *)
(***************************************************************************)
\* 1114-1117: a result event of any thread is consumed
ResultConsumed == ThreadResultReceived(AllThreadResults)

NextResults ==
    \/ update_spectrum
    \/ CameraSendsScalingFrame
    \/ SelectFormat
    \/ ConnectClicked
    \/ ResultConsumed
    \/ SetZeroClicked
    \/ ClearZeroClicked
    \/ RedGainChanged

SpecResults == Init /\ [][NextResults]_vars

\* C16 as stated: consuming a result event changes the last-known error only;
\* the running flag, the buffer, the spectrum, the zero reference and the
\* configuration stay as they are.
C16_ResultChangesErrorOnly ==
    [][ResultConsumed =>
          UNCHANGED <<running, spectrum_buffer, spectrum, zero_reference, config>>]_vars

\* C16: consuming a result event sets the last-known error to the event and
\* leaves the buffer, the spectrum, the zero reference and the configuration
\* as they are; the running flag is cleared when the event is a failure of
\* the camera thread and stays as it is for every other event.
C16_ResultChangesErrorAndStopsOnCameraFailure ==
    [][ResultConsumed =>
          /\ UNCHANGED <<spectrum_buffer, spectrum, zero_reference, config>>
          /\ last_error' \in {Some(res) : res \in AllThreadResults}
          /\ running' = IF last_error'[1] = [id |-> "Camera", result |-> "Err"]
                        THEN FALSE ELSE running]_vars

\* a camera failure consumed while the stream ran with a frame buffered and a
\* zero reference set: the stream is not running, the StartStream sent last
\* was not followed by a StopStream
C16_Reached ==
    /\ ~running
    /\ last_error = Some([id |-> "Camera", result |-> "Err"])
    /\ Events(camera_config_tx) = <<"Config", "StartStream">>
    /\ spectrum_buffer # <<>>
    /\ zero_reference # None

(***************************************************************************)
(* One tick of update (gui.rs 1105-1128) as a single step: the frame, the  *)
(* result event, then the drawing, in the order of the code.               *)
(***************************************************************************)
\* a receive that takes the newest frame of the channel
recv_newest(rx) ==
    IF rx = <<>> THEN [frame |-> None, rest |-> rx]
    ELSE [frame |-> Some(rx[Len(rx)]), rest |-> SubSeq(rx, 1, Len(rx) - 1)]

\* 1110 Receiver::try_recv: the oldest frame in flight, if any, and the
\* frames left in the channel; an empty channel gives no frame at once
try_recv(rx) ==
    IF rx = <<>> THEN [frame |-> None, rest |-> rx]
    ELSE [frame |-> Some(Head(rx)), rest |-> Tail(rx)]

\* a drawing that reads the spectrum the tick began with
spectrum_before(before, after) == before

\* 1125 draw_spectrum(ctx) reads self.spectrum after 1110-1112 wrote it
spectrum_drawn(before, after) == after

MaxTickFrames == 3

MaxTickQueue == 2

\* three-bin frames: one with a peak and one with a dip at the middle bin
TickFrames == { Frame(<<1, 2, 1>>, <<0, 0, 0>>, <<0, 0, 0>>),
                Frame(<<2, 1, 2>>, <<0, 0, 0>>, <<0, 0, 0>>) }

CameraSendsTickFrame == CameraSends(TickFrames, MaxTickFrames, MaxTickQueue)

\* 1105-1128 update: at most one frame is taken and processed, at most one
\* result event is taken, then the spectrum is drawn, with its peaks or dips
\* if draw_peaks or draw_dips is checked
update ==
    /\ panicked = "no"
    /\ \E got \in {try_recv(spectrum_rx)} :
       \E done \in {IF got.frame # None THEN Processed(got.frame[1])
                     ELSE [ spectrum_buffer   |-> spectrum_buffer,
                            zero_reference    |-> zero_reference,
                            dimension_changed |-> dimension_changed,
                            stale_buffer      |-> stale.buffer,
                            history           |-> history,
                            panicked          |-> "no",
                            spectrum          |-> spectrum ]} :
           /\ spectrum_rx' = got.rest
           /\ stale' = [rx     |-> IF got.frame # None THEN Tail(stale.rx) ELSE stale.rx,
                        buffer |-> done.stale_buffer]
           /\ spectrum_buffer' = done.spectrum_buffer
           /\ zero_reference' = done.zero_reference
           /\ dimension_changed' = done.dimension_changed
           /\ history' = done.history
           /\ spectrum' = done.spectrum
           /\ IF done.panicked # "no"
              THEN /\ panicked' = done.panicked
                   /\ UNCHANGED <<running, last_error, feature_points>>
              ELSE /\ \/ UNCHANGED <<running, last_error>>
                      \/ \E res \in AllThreadResults :
                           /\ running' = handle_thread_result(res, running)
                           /\ last_error' = Some(res)
                   /\ \/ UNCHANGED <<feature_points, panicked>>
                      \/ \E peaks \in BOOLEAN :
                           LET drawn == PeaksAndDips(spectrum_drawn(spectrum, done.spectrum),
                                                     config, peaks)
                           IN  IF drawn = None
                               THEN panicked' = "reduce_unwrap" /\ UNCHANGED feature_points
                               ELSE feature_points' = drawn /\ UNCHANGED panicked
    /\ UNCHANGED <<config, camera_controls, camera_config_tx, cam_started, nsent>>

NextTick ==
    \/ update
    \/ CameraSendsTickFrame
    \/ SelectFormat
    \/ ConnectClicked

SpecTick == Init /\ [][NextTick]_vars

\* C17: every step leaves the channel as it is, appends one frame to it or
\* takes the oldest frame out of it, so that a tick takes at most one frame,
\* frames leave in the order sent and none leaves twice; the step that takes
\* a frame out puts that frame, linearized, at the front of the buffer; a
\* step that takes no frame, such as a tick with an empty channel, leaves the
\* spectrum and the zero reference as they are and puts no frame into the
\* buffer; and the peaks or dips a tick draws are those of the spectrum that
\* tick published.
C17_TickTakesOldestFrameThenDraws ==
    [][/\ \/ spectrum_rx' = spectrum_rx
          \/ spectrum_rx # <<>> /\ spectrum_rx' = Tail(spectrum_rx)
          \/ \E f \in TickFrames : spectrum_rx' = Append(spectrum_rx, f)
       /\ UpdateStep =>
             spectrum_buffer'[1] = LinearizeFrame(config.linearize, Head(spectrum_rx))
       /\ ~UpdateStep => UNCHANGED <<spectrum, zero_reference>>
       /\ ~UpdateStep /\ spectrum_buffer' # spectrum_buffer => spectrum_buffer' = <<>>
       /\ feature_points' # feature_points =>
             \E peaks \in BOOLEAN :
                 feature_points' = PeaksAndDips(spectrum', config, peaks)]_vars

\* two frames were in flight, the peak frame sent first; the tick took the
\* peak frame, left the dip frame in the channel and drew the peak it found
C17_Reached ==
    /\ panicked = "no"
    /\ nsent = 2
    /\ spectrum_rx = <<Frame(<<2, 1, 2>>, <<0, 0, 0>>, <<0, 0, 0>>)>>
    /\ spectrum_buffer = <<Frame(<<1, 2, 1>>, <<0, 0, 0>>, <<0, 0, 0>>)>>
    /\ feature_points # None
    /\ feature_points[1].peaks
    /\ Len(feature_points[1].filtered_peaks_dips) = 1

\* a row filtered forward from the zero state and then in reverse from the
\* zero state again
FilteredWithFreshReverse(c, row) ==
    LET n   == Len(row)
        fwd == RunOver(c, row, <<Num(0), Num(0)>>, [i \in 1..n |-> i])
        rev == RunOver(c, fwd[1], <<Num(0), Num(0)>>, [i \in 1..n |-> n + 1 - i])
    IN  rev[1]

\* C18: with the filter enabled, each of the four rows of a published
\* spectrum is its assembled row filtered on its own, forward from the zero
\* state and then in reverse from a freshly initialised zero state (stated
\* for spectra published with no zero reference set).
C18_ReversePassStartsFresh ==
    [][UpdateStep /\ panicked' = "no" /\ config.spectrum_filter_active
                  /\ zero_reference' = None =>
          \A k \in 1..4 :
              spectrum'[k] =
                  FilteredWithFreshReverse(Coefficients,
                                           Assembled(spectrum_buffer', config)[k])]_vars

\* Assembly: the three gains and the scaling vector, with the filter disabled
\* and no zero reference, so that the published spectrum is the assembled one.
CameraSendsAssemblyFrame == CameraSends(ScalingFrames, MaxProcessingFrames, MaxQueue)

NextAssembly ==
    \/ update_spectrum
    \/ CameraSendsAssemblyFrame
    \/ SelectFormat
    \/ ConnectClicked
    \/ GainChanged
    \/ ImportClicked
    \/ SetCalibrationClicked
    \/ DeleteCalibrationClicked

SpecAssembly == Init /\ [][NextAssembly]_vars

\* C19: the spectrum update_spectrum assembles (published as it is when the
\* filter is disabled and no zero reference is set) has, in every bin i,
\* R[i] = gain_r * mean R[i], G[i] = gain_g * mean G[i], B[i] = gain_b * mean
\* B[i] and Sum[i] = (R[i] + G[i] + B[i]) * scalingFactorOf(i): a gain enters
\* its own row and, through it, the sum; the scaling vector enters the sum
\* only.
C19_RowsAreGainTimesMean ==
    [][UpdateStep /\ panicked' = "no" /\ ~config.spectrum_filter_active
                  /\ zero_reference' = None =>
          LET mean == PerBinMean(spectrum_buffer')
          IN  \A i \in 1..ncols(spectrum') :
                /\ spectrum'[1][i] = F32Mul(config.gain_r, mean[1][i])
                /\ spectrum'[2][i] = F32Mul(config.gain_g, mean[2][i])
                /\ spectrum'[3][i] = F32Mul(config.gain_b, mean[3][i])
                /\ spectrum'[4][i] =
                     F32Mul(F32Add(F32Add(spectrum'[1][i], spectrum'[2][i]),
                                   spectrum'[3][i]),
                            ScalingFactorOf(config.scaling, i - 1))]_vars

\* published with the green gain 2, the other gains 1 and a scaling vector
\* set from the first curve (values 2 and 4 at the two bins) over the sums 3
\* and 6: Sum = (5 * 2/3, 7 * 2/3)
C19_Reached ==
    /\ panicked = "no"
    /\ config.gain_r = Num(1) /\ config.gain_g = Num(2) /\ config.gain_b = Num(1)
    /\ config.scaling = Some(<<F32(2, 3), F32(2, 3)>>)
    /\ spectrum = << <<Num(1), Num(3)>>, <<Num(4), Num(2)>>, <<Num(0), Num(2)>>,
                     <<F32(10, 3), F32(14, 3)>> >>

(***************************************************************************)
(* The whole GUI: the tick and the operator's actions together.            *)
(***************************************************************************)
\* 960-980: "Export Spectrum": the file is written (nothing of the state
\* changes), or the writer cannot be opened and the error is recorded, or a
\* write fails and unwrap() panics
ExportClicked ==
    /\ panicked = "no"
    /\ running
    /\ \/ UNCHANGED <<last_error, panicked>>
       \/ /\ last_error' = Some([id |-> "Main", result |-> "Err"])
          /\ UNCHANGED panicked
       \/ /\ panicked' = "export_unwrap"
          /\ UNCHANGED last_error
    /\ UNCHANGED <<config, running, camera_controls, spectrum, spectrum_buffer,
                   zero_reference, spectrum_rx, camera_config_tx, feature_points,
                   history, cam_started, dimension_changed, nsent, stale>>

NextGui ==
    \/ update
    \/ CameraSendsAssemblyFrame
    \/ SelectFormat
    \/ ConnectClicked
    \/ SelectLinearize
    \/ ControlChanged
    \/ SetZeroClicked
    \/ ClearZeroClicked
    \/ ImportClicked
    \/ DeleteReferenceClicked
    \/ SetCalibrationClicked
    \/ DeleteCalibrationClicked
    \/ ExportClicked

SpecGui == Init /\ [][NextGui]_vars

\* C20: only a step in which update_spectrum takes a frame out of the channel
\* changes the published spectrum; ticks without a frame, result events,
\* feature-point computation, buffer clears by a change of mode or control,
\* stream start and stop, setting and clearing the zero reference or the
\* scaling vector, import and export leave it as it is.
C20_OnlyUpdateSpectrumPublishes ==
    [][spectrum' # spectrum => UpdateStep]_vars

\* a spectrum published before the stream was stopped by a camera failure,
\* still there with the buffer cleared, a zero reference and a scaling vector
\* set and feature points computed
C20_Reached ==
    /\ spectrum # zeros(0)
    /\ spectrum_buffer = <<>>
    /\ zero_reference # None
    /\ config.scaling # None
    /\ feature_points # None
    /\ ~running
    /\ last_error = Some([id |-> "Camera", result |-> "Err"])

(***************************************************************************)
(* The acquisition thread sending while the operator changes a control or  *)
(* restarts the stream.                                                    *)
(***************************************************************************)
MaxCaptureFrames == 3

\* one-bin frames of two brightnesses
CaptureFrames == { Flat(1), Flat(2) }

CameraSendsCaptureFrame == CameraSends(CaptureFrames, MaxCaptureFrames, MaxQueue)

NextCapture ==
    \/ update_spectrum
    \/ CameraSendsCaptureFrame
    \/ SelectFormat
    \/ ConnectClicked
    \/ ControlChanged

SpecCapture == Init /\ [][NextCapture]_vars

\* C21: the buffer never holds at the same time a frame that was in flight
\* when a control change or a stream start cleared the buffer and a frame
\* sent after it.
C21_BufferFramesOfOneCapture ==
    \A i, j \in DOMAIN stale.buffer : stale.buffer[i] = stale.buffer[j]

(***************************************************************************)
(* The connection panel: format box and Start.../Stop... button.           *)
(***************************************************************************)
\* the formats of a camera that offers two
TwoFormats == { [width |-> 4, height |-> 2], [width |-> 5, height |-> 2] }

\* 1015-1032: one of the two formats is chosen
SelectOneOfTwoFormats == SelectFormatOf(TwoFormats)

NextConnection ==
    \/ SelectOneOfTwoFormats
    \/ ConnectClicked
    \/ ResultConsumed
    \/ WindowOffsetXChanged
    \/ WindowSizeXChanged

SpecConnection == Init /\ [][NextConnection]_vars

\* C22: in every reachable state running implies that a format is selected;
\* running becomes true only by the connect action with a format selected;
\* while running the format is neither changed nor unset; and a connect
\* action without a format leaves running as it is and records an error of
\* the GUI thread.
C22_RunningHasFormat ==
    /\ [](running => config.camera_format # None)
    /\ [][/\ ~running /\ running' => ConnectClicked /\ config.camera_format # None
          /\ running => config'.camera_format = config.camera_format
          /\ ConnectClicked /\ config.camera_format = None =>
                /\ running' = running
                /\ last_error' = Some([id |-> "Main", result |-> "Err"])]_vars

\* running on the wider format after a connect without a format was refused
\* and a camera failure had stopped the stream once
C22_Reached ==
    /\ running
    /\ config.camera_format = Some([width |-> 5, height |-> 2])
    /\ last_error = Some([id |-> "Camera", result |-> "Err"])
    /\ config.window.size_x = 3

(***************************************************************************)
(* The events sent to the acquisition thread.                              *)
(***************************************************************************)
NextStream ==
    \/ SelectOneOfTwoFormats
    \/ ConnectClicked
    \/ ResultConsumed
    \/ WindowSizeXChanged
    \/ ControlChanged
    \/ CameraSendsCaptureFrame
    \/ update_spectrum

SpecStream == Init /\ [][NextStream]_vars

\* the events a step sends contain one of the given kind
Sends(kind) ==
    /\ camera_config_tx' # camera_config_tx
    /\ \E i \in DOMAIN camera_config_tx' : camera_config_tx'[i].event = kind

\* C23: a step that turns running from false to true sends exactly a Config
\* event carrying the image configuration of that moment and then a
\* StartStream event, and leaves the buffer empty; every StartStream event
\* sent has a Config event with that configuration right before it;
\* StartStream is sent only by a step that turns running from false to true,
\* StopStream only by a step that turns it from true to false.
C23_StartStreamFollowsConfig ==
    [][/\ ~running /\ running' =>
             /\ Events(camera_config_tx') = <<"Config", "StartStream">>
             /\ camera_config_tx'[1] = ConfigEvent(config'.window)
             /\ spectrum_buffer' = <<>>
       /\ Sends("StartStream") =>
             /\ ~running /\ running'
             /\ spectrum_buffer' = <<>>
             /\ \A i \in DOMAIN camera_config_tx' :
                   camera_config_tx'[i].event = "StartStream" =>
                       /\ i > 1
                       /\ camera_config_tx'[i - 1] = ConfigEvent(config'.window)
       /\ Sends("StopStream") => running /\ ~running']_vars

\* the stream was restarted on the wider format with a smaller window after
\* frames had been buffered: the events sent last are the Config carrying
\* that window and the StartStream, the buffer is empty
C23_Reached ==
    /\ running
    /\ nsent >= 2
    /\ spectrum # zeros(0)
    /\ spectrum_buffer = <<>>
    /\ config.window.size_x = 1
    /\ camera_config_tx = <<ConfigEvent([offset_x |-> 1, size_x |-> 1]),
                            StartStreamEvent([width |-> 5, height |-> 2])>>

(***************************************************************************)
(* Properties of the surviving feature points.                             *)
(***************************************************************************)
\* the points of a sequence at the positions S, in the sequence's order
PointsAt(points, S) ==
    LET In(k) == k \in S
        at    == SelectSeq([k \in 1..Len(points) |-> k], In)
    IN  [j \in 1..Len(at) |-> points[at[j]]]

\* the bins of a sequence of points increase along it
IncreasingBins(points) ==
    \A a, b \in 1..Len(points) : a < b => points[a].index < points[b].index

\* C24: the surviving feature points are a subsequence of the candidates in
\* increasing bin-index order; whenever at least one candidate exists, the
\* candidates with the globally best value (largest for peaks, smallest for
\* dips) survive; so the survivors are empty iff there are no candidates.
C24_BestCandidateSurvives ==
    feature_points # None =>
        LET fp        == feature_points[1]
            cands     == fp.peaks_dips
            survivors == fp.filtered_peaks_dips
            all       == { cands[k] : k \in 1..Len(cands) }
        IN  /\ IncreasingBins(cands)
            /\ \E S \in SUBSET (1..Len(cands)) : survivors = PointsAt(cands, S)
            /\ IncreasingBins(survivors)
            /\ \A c \in all :
                  c.value = BestValue(all, fp.peaks) =>
                      \E k \in 1..Len(survivors) : survivors[k] = c
            /\ (survivors = <<>>) <=> (cands = <<>>)

\* C24, reached: the detector ran in dip mode, found two dips in each other's
\* unique window, the first the lower, and kept the first alone.
C24_Reached ==
    /\ feature_points # None
    /\ ~feature_points[1].peaks
    /\ Len(feature_points[1].peaks_dips) = 2
    /\ F32Lt(feature_points[1].peaks_dips[1].value, feature_points[1].peaks_dips[2].value)
    /\ feature_points[1].filtered_peaks_dips = <<feature_points[1].peaks_dips[1]>>

====
